---- MODULE Spec2Model ----
(***************************************************************************)
(* Model of the kubefi-deployments reconciliation controller               *)
(* (kubefi-deployments/src/controller.rs and controller/configmap.rs).     *)
(*                                                                         *)
(* One event handler runs at a time (the dispatcher serialises events).    *)
(* Every cluster-API call is one step: the futures joined in a tier        *)
(* interleave call by call.  The cluster is a map from (kind, name) to the *)
(* stored resource; the call counters are reset when an event is           *)
(* dispatched, so they count the calls of the running handler.             *)
(***************************************************************************)
EXTENDS Integers, Sequences, FiniteSets, TLC

\* ------------------------------------------------------------------ bounds
\* events dispatched in one behaviour
MaxOps == 2
\* transient failures (API, render, parse) injected in one behaviour
MaxFaults == 1

\* ------------------------------------------------------------- vocabulary
None == "<none>"
Absent == [owner |-> None, data |-> <<>>, labels |-> None]

CrKind == "NiFiDeployment"
CrNames == {"flow", "nifi", "nifi-zookeeper"}
Ldaps == {None, "ldap"}
TransientErrors == {"UpstreamApiError", "TemplateError", "ManifestParseError"}
ApiErrors == {"UpstreamApiError", "NotFound", "AlreadyExists"}
Errors == TransientErrors \cup ApiErrors

VARIABLES
    cluster,   \* (kind, name) -> stored resource, or Absent
    tpl,       \* the Template's configuration
    crs,       \* names of the deployments the dispatcher delivers events for
    ev,        \* the event being handled: [action, d]
    pc,        \* position of the running handler
    br,        \* branch -> state / result of each joined future
    current,   \* handle_update: data of the ConfigMap that get returned
    todo,      \* delete_resources: kind -> names still to delete
    listed,    \* find_names: kind -> whether the list returned, and its names
    gets, creates, deletes, lists,   \* calls issued by the running handler
    ret,       \* value returned to the dispatcher
    prev,      \* the previous handler: its event, branch results and creates,
               \* and the failures injected before the running handler began
    nOps, faults

vars == <<cluster, tpl, crs, ev, pc, br, current, todo, listed,
          gets, creates, deletes, lists, ret, prev, nOps, faults>>

\* ------------------------------------------------------ naming convention
zk_cm_name(name) == name \o "-zookeeper"
nifi_cm_name(name) == name \o "-config"
zk_set_name(name) == name \o "-zookeeper"
headless_service_name(name) == name \o "-headless"
zk_service_name(name) == name \o "-zookeeper"
zk_headless_service_name(name) == name \o "-zookeeper-headless"
ingress_name(name) == name \o "-ingress"

Tier1 == <<"zk_configmap", "nifi_configmap">>
Tier2 == <<"nifi_statefulset", "zk_statefulset">>
Tier3 == <<"nifi_service", "nifi_headless_service", "zk_service",
           "zk_headless_service", "ingress">>
Range(s) == {s[i] : i \in 1..Len(s)}
Templates == Range(Tier1) \cup Range(Tier2) \cup Range(Tier3)

\* the (kind, name) that handle_event passes to create_from_yaml for a branch
BranchKey(b, name) ==
    CASE b = "zk_configmap"          -> <<"ConfigMap", zk_cm_name(name)>>
      [] b = "nifi_configmap"        -> <<"ConfigMap", nifi_cm_name(name)>>
      [] b = "nifi_statefulset"      -> <<"StatefulSet", name>>
      [] b = "zk_statefulset"        -> <<"StatefulSet", zk_set_name(name)>>
      [] b = "nifi_service"          -> <<"Service", name>>
      [] b = "nifi_headless_service" -> <<"Service", headless_service_name(name)>>
      [] b = "zk_service"            -> <<"Service", zk_service_name(name)>>
      [] b = "zk_headless_service"   -> <<"Service", zk_headless_service_name(name)>>
      [] b = "ingress"               -> <<"Ingress", ingress_name(name)>>

Kinds == {"ConfigMap", "StatefulSet", "Service", "Ingress"}
Keys == {BranchKey(b, n) : b \in Templates, n \in CrNames}

\* futures joined by on_delete
StsDeletes == <<"delete_nifi_set", "delete_zk_set">>
LabelDeletes == <<"Service", "ConfigMap", "Ingress">>
Branches == Templates \cup Range(StsDeletes) \cup Range(LabelDeletes)

\* the order in which a list call returns names
NameOrder ==
    <<"flow", "flow-config", "flow-headless", "flow-ingress", "flow-zookeeper",
      "flow-zookeeper-headless",
      "nifi", "nifi-config", "nifi-headless", "nifi-ingress", "nifi-zookeeper",
      "nifi-zookeeper-config", "nifi-zookeeper-headless",
      "nifi-zookeeper-ingress", "nifi-zookeeper-zookeeper",
      "nifi-zookeeper-zookeeper-headless">>

\* ----------------------------------------------------------- the renderer
CascadeLabels == "app.kubernetes.io/managed-by=Kubefi,release=nifi"

\* name the template gives the resource it renders for the argument `arg`
ManifestKey(t, arg) == BranchKey(t, arg)

\* data payload of the rendered manifest
ManifestData(t, arg, spec) ==
    CASE t = "nifi_configmap" ->
            <<t, IF tpl.nameInData THEN arg ELSE "*", spec.ldap>>
      [] t \in Range(Tier2) -> <<t, arg, spec.replicas>>
      [] OTHER -> <<t, arg>>

Render(t, arg, spec) ==
    [key |-> ManifestKey(t, arg),
     res |-> [owner |-> arg, data |-> ManifestData(t, arg, spec),
              labels |-> CascadeLabels]]

\* what one call of a template function can yield
RenderOutcomes(t) ==
    IF t \in tpl.disabled THEN {"none"}
    ELSE {"some"} \cup
         (IF faults < MaxFaults THEN {"TemplateError", "ManifestParseError"} ELSE {})

\* ---------------------------------------------------------- cluster API
GetOutcomes(key) ==
    IF cluster[key] = Absent THEN {"NotFound"}
    ELSE {"found"} \cup (IF faults < MaxFaults THEN {"UpstreamApiError"} ELSE {})

CreateOutcomes(key) ==
    IF cluster[key] # Absent THEN {"AlreadyExists"}
    ELSE {"created"} \cup (IF faults < MaxFaults THEN {"UpstreamApiError"} ELSE {})

DeleteOutcomes(key) ==
    IF cluster[key] = Absent THEN {"NotFound"}
    ELSE {"deleted"} \cup (IF faults < MaxFaults THEN {"UpstreamApiError"} ELSE {})

Fault(o) == IF o \in TransientErrors THEN 1 ELSE 0

\* ------------------------------------------------------------------ errors
\* Display of ControllerError::MissingProperty
MissingProperty(property, kind) ==
    "Property \"" \o property \o "\" for " \o kind \o " resource is missing"

IsErr(r) == r \in Errors

\* mutant: the join keeps the first result only and drops the others
FirstErr_first_only(branches) ==
    IF IsErr(br[branches[1]]) THEN br[branches[1]] ELSE None

\* r1.and(r2)...: the first error in argument order, None when all are Ok
FirstErr(branches) ==
    LET bad == {i \in 1..Len(branches) : IsErr(br[branches[i]])}
    IN IF bad = {} THEN None
       ELSE br[branches[CHOOSE i \in bad : \A j \in bad : i <= j]]

Running == {"off", "get", "create", "delete", "list", "deleting"}
\* mutant: the join returns as soon as one of its futures has failed
Finished_fail_fast(branches) ==
    \/ \A i \in 1..Len(branches) : br[branches[i]] \notin Running
    \/ \E i \in 1..Len(branches) : IsErr(br[branches[i]])

Finished(branches) ==
    \A i \in 1..Len(branches) : br[branches[i]] \notin Running

ZeroCalls == [k \in Keys |-> 0]
ZeroLists == [k \in Kinds |-> 0]
AllOff == [b \in Branches |-> "off"]
NoRet == [tag |-> "-", name |-> None, error |-> "", last_action |-> "",
          updated |-> FALSE]
NoEvent == [action |-> "-", d |-> [name |-> None, namespace |-> None,
                                   kind |-> CrKind,
                                   spec |-> [ldap |-> None, replicas |-> 1]]]

\* the deployments delivered to on_add, on_modify and on_delete, which do not
\* read spec.ldap
Deployments ==
    [name : crs \cup {None}, namespace : {"default", None}, kind : {CrKind},
     spec : [ldap : {None}, replicas : {1}]]

\* -------------------------------------------------------------------- Init
TemplateConfigs ==
    [disabled : {{}, {"ingress"}, {"nifi_configmap"}}, nameInData : {FALSE}]
    \cup [disabled : {{}}, nameInData : {TRUE}]

\* a nifi ConfigMap left in the cluster by an earlier run of the controller
Leftover ==
    [k \in Keys |->
        IF k = <<"ConfigMap", nifi_cm_name("nifi")>>
        THEN [owner |-> "nifi", data |-> <<"nifi_configmap", "*", None>>,
              labels |-> CascadeLabels]
        ELSE Absent]

\* NiFiController::new: the template configuration given to the controller,
\* and the cluster it is started against (empty, or holding the ConfigMap of
\* an earlier run while the nifi ConfigMap template is now disabled)
InitialStates ==
    {<<c, [k \in Keys |-> Absent]>> : c \in TemplateConfigs}
    \cup {<<[disabled |-> {"nifi_configmap"}, nameInData |-> FALSE], Leftover>>}

\* no find_names of the running handler has returned a list
NotListed == [k \in Kinds |-> [ok |-> FALSE, names |-> <<>>]]

Init ==
    /\ \E i \in InitialStates : tpl = i[1] /\ cluster = i[2]
    /\ crs = {"nifi"}
    /\ ev = NoEvent
    /\ prev = [ev |-> NoEvent, br |-> AllOff, creates |-> ZeroCalls,
               faults |-> 0]
    /\ pc = "idle"
    /\ br = AllOff
    /\ current = <<>>
    /\ todo = [k \in Kinds |-> <<>>]
    /\ listed = NotListed
    /\ gets = ZeroCalls /\ creates = ZeroCalls /\ deletes = ZeroCalls
    /\ lists = ZeroLists
    /\ ret = NoRet
    /\ nOps = 0
    /\ faults = 0

\* ------------------------------------------------- on_add / on_modify
\* mutant: a missing namespace falls back to "default"
read_namespace_default(d) ==
    IF d.namespace = None THEN "default" ELSE d.namespace

read_namespace(d) == d.namespace

read_name(d) == d.name

Dispatchable == pc \in {"idle", "done"} /\ nOps < MaxOps

Begin(action, d) ==
    /\ Dispatchable
    /\ ev' = [action |-> action, d |-> d]
    /\ prev' = [ev |-> ev, br |-> br, creates |-> creates, faults |-> faults]
    /\ nOps' = nOps + 1
    /\ gets' = ZeroCalls /\ creates' = ZeroCalls /\ deletes' = ZeroCalls
    /\ lists' = ZeroLists
    /\ current' = <<>>
    /\ todo' = [k \in Kinds |-> <<>>]
    /\ listed' = NotListed
    /\ UNCHANGED <<cluster, tpl, crs, faults>>

\* mutant: a missing name is captured in a status like any other error
handle_action_status_without_name(d, last_action) ==
    /\ Begin(last_action, d)
    /\ IF d.name = None
       THEN /\ ret' = [tag |-> "Ok", name |-> None,
                       error |-> MissingProperty("name", d.kind),
                       last_action |-> last_action, updated |-> FALSE]
            /\ pc' = "done"
            /\ br' = AllOff
       ELSE IF read_namespace(d) = None
       THEN /\ ret' = [tag |-> "Ok", name |-> d.name,
                       error |-> MissingProperty("namespace", d.kind),
                       last_action |-> last_action, updated |-> FALSE]
            /\ pc' = "done"
            /\ br' = AllOff
       ELSE /\ ret' = NoRet
            /\ pc' = "tier1"
            /\ br' = [b \in Branches |->
                        IF b \in Range(Tier1) THEN "get" ELSE "off"]

\* handle_action up to the first await of handle_event
handle_action(d, last_action) ==
    /\ Begin(last_action, d)
    /\ IF d.name = None
       THEN /\ ret' = [tag |-> "Err", name |-> None,
                       error |-> MissingProperty("name", d.kind),
                       last_action |-> "", updated |-> FALSE]
            /\ pc' = "done"
            /\ br' = AllOff
       ELSE IF read_namespace(d) = None
       THEN /\ ret' = [tag |-> "Ok", name |-> d.name,
                       error |-> MissingProperty("namespace", d.kind),
                       last_action |-> last_action, updated |-> FALSE]
            /\ pc' = "done"
            /\ br' = AllOff
       ELSE /\ ret' = NoRet
            /\ pc' = "tier1"
            /\ br' = [b \in Branches |->
                        IF b \in Range(Tier1) THEN "get" ELSE "off"]

on_add(d) == handle_action(d, "add")

on_modify(d) == handle_action(d, "modify")

\* the closures handle_event passes as `yaml`: nifi_configmap is given the
\* name only, the StatefulSets the replicas, image and storage class of d.spec
handle_event_yaml(b, name, d) ==
    Render(b, name, [d.spec EXCEPT !.ldap = None])

\* mutant: the result of the get is ignored and the create path always taken
create_from_yaml_get_blind(b) ==
    /\ pc \in {"tier1", "tier2", "tier3"}
    /\ br[b] = "get"
    /\ gets' = [gets EXCEPT ![BranchKey(b, ev.d.name)] = @ + 1]
    /\ br' = [br EXCEPT ![b] = "create"]
    /\ UNCHANGED <<cluster, tpl, crs, ev, pc, current, todo, listed,
                   creates, deletes, lists, ret, prev, nOps, faults>>

\* create_from_yaml: api.get(name).await
create_from_yaml_get(b) ==
    /\ pc \in {"tier1", "tier2", "tier3"}
    /\ br[b] = "get"
    /\ LET key == BranchKey(b, ev.d.name) IN
       \E o \in GetOutcomes(key) :
          /\ gets' = [gets EXCEPT ![key] = @ + 1]
          /\ br' = [br EXCEPT ![b] = IF o = "found" THEN "found" ELSE "create"]
          /\ faults' = faults + Fault(o)
    /\ UNCHANGED <<cluster, tpl, crs, ev, pc, current, todo, listed,
                   creates, deletes, lists, ret, prev, nOps>>

\* create_resource: api.create(&pp, &resource).await.map_err(Error::new)
create_resource(b, m) ==
    \E o \in CreateOutcomes(m.key) :
       /\ creates' = [creates EXCEPT ![m.key] = @ + 1]
       /\ cluster' = IF o = "created"
                     THEN [cluster EXCEPT ![m.key] = m.res] ELSE cluster
       /\ br' = [br EXCEPT ![b] = o]
       /\ faults' = faults + Fault(o)

\* mutant: a template that renders no manifest is reported as an error
create_from_yaml_absent_none_fails(b) ==
    /\ pc \in {"tier1", "tier2", "tier3"}
    /\ br[b] = "create"
    /\ \E y \in RenderOutcomes(b) :
          CASE y = "none" ->
                 /\ br' = [br EXCEPT ![b] = "TemplateError"]
                 /\ UNCHANGED <<cluster, creates, faults>>
            [] y = "some" ->
                 create_resource(b, handle_event_yaml(b, ev.d.name, ev.d))
            [] OTHER ->
                 /\ br' = [br EXCEPT ![b] = y]
                 /\ faults' = faults + 1
                 /\ UNCHANGED <<cluster, creates>>
    /\ UNCHANGED <<tpl, crs, ev, pc, current, todo, listed, gets, deletes, lists,
                   ret, prev, nOps>>

\* mutant: a rendered manifest is dropped, Ok(None) is returned without a create
create_from_yaml_absent_skips_create(b) ==
    /\ pc \in {"tier1", "tier2", "tier3"}
    /\ br[b] = "create"
    /\ \E y \in RenderOutcomes(b) :
          CASE y \in {"none", "some"} ->
                 /\ br' = [br EXCEPT ![b] = "none"]
                 /\ UNCHANGED <<cluster, creates, faults>>
            [] OTHER ->
                 /\ br' = [br EXCEPT ![b] = y]
                 /\ faults' = faults + 1
                 /\ UNCHANGED <<cluster, creates>>
    /\ UNCHANGED <<tpl, crs, ev, pc, current, todo, listed, gets, deletes, lists,
                   ret, prev, nOps>>

\* create_from_yaml: the Err(_) arm of the get
create_from_yaml_absent(b) ==
    /\ pc \in {"tier1", "tier2", "tier3"}
    /\ br[b] = "create"
    /\ \E y \in RenderOutcomes(b) :
          CASE y = "none" ->
                 /\ br' = [br EXCEPT ![b] = "none"]
                 /\ UNCHANGED <<cluster, creates, faults>>
            [] y = "some" ->
                 create_resource(b, handle_event_yaml(b, ev.d.name, ev.d))
            [] OTHER ->
                 /\ br' = [br EXCEPT ![b] = y]
                 /\ faults' = faults + 1
                 /\ UNCHANGED <<cluster, creates>>
    /\ UNCHANGED <<tpl, crs, ev, pc, current, todo, listed, gets, deletes, lists,
                   ret, prev, nOps>>

\* handle_action: the status built from handle_event's result
Status(error) ==
    [tag |-> "Ok", name |-> ev.d.name, error |-> error,
     last_action |-> ev.action, updated |-> FALSE]

\* mutant: the `?` after the join is missing, the next tier always starts
handle_event_join_no_abort(tier, next, nextpc) ==
    /\ Finished(tier)
    /\ IF nextpc = "done"
       THEN /\ ret' = Status(IF FirstErr(tier) # None THEN FirstErr(tier) ELSE "")
            /\ pc' = "done"
            /\ br' = br
       ELSE /\ ret' = ret
            /\ pc' = nextpc
            /\ br' = [b \in Branches |->
                        IF b \in Range(next) THEN "get" ELSE br[b]]
    /\ UNCHANGED <<cluster, tpl, crs, ev, current, todo, listed,
                   gets, creates, deletes, lists, prev, nOps, faults>>

\* mutant: a failed tier is rolled back, what its branches created is deleted
handle_event_join_rollback(tier, next, nextpc) ==
    /\ Finished(tier)
    /\ LET made == {BranchKey(b, ev.d.name) : b \in {x \in Range(tier) : br[x] = "created"}} IN
       IF FirstErr(tier) # None
       THEN /\ ret' = Status(FirstErr(tier))
            /\ pc' = "done"
            /\ br' = br
            /\ cluster' = [k \in Keys |-> IF k \in made THEN Absent ELSE cluster[k]]
            /\ deletes' = [k \in Keys |-> IF k \in made THEN deletes[k] + 1 ELSE deletes[k]]
       ELSE /\ UNCHANGED <<cluster, deletes>>
            /\ IF nextpc = "done"
               THEN /\ ret' = Status("")
                    /\ pc' = "done"
                    /\ br' = br
               ELSE /\ ret' = ret
                    /\ pc' = nextpc
                    /\ br' = [b \in Branches |->
                                IF b \in Range(next) THEN "get" ELSE br[b]]
    /\ UNCHANGED <<tpl, crs, ev, current, todo, listed,
                   gets, creates, lists, prev, nOps, faults>>

\* handle_event: join of a tier, `?`, and the start of the next tier
handle_event_join(tier, next, nextpc) ==
    /\ Finished(tier)
    /\ IF FirstErr(tier) # None
       THEN /\ ret' = Status(FirstErr(tier))
            /\ pc' = "done"
            /\ br' = br
       ELSE IF nextpc = "done"
       THEN /\ ret' = Status("")
            /\ pc' = "done"
            /\ br' = br
       ELSE /\ ret' = ret
            /\ pc' = nextpc
            /\ br' = [b \in Branches |->
                        IF b \in Range(next) THEN "get" ELSE br[b]]
    /\ UNCHANGED <<cluster, tpl, crs, ev, current, todo, listed,
                   gets, creates, deletes, lists, prev, nOps, faults>>

Join1 == pc = "tier1" /\ handle_event_join(Tier1, Tier2, "tier2")
Join2 == pc = "tier2" /\ handle_event_join(Tier2, Tier3, "tier3")
Join3 == pc = "tier3" /\ handle_event_join(Tier3, <<>>, "done")

\* ---------------------------------------------------------------- on_delete
Err(e) == [tag |-> "Err", name |-> None, error |-> e, last_action |-> "",
           updated |-> FALSE]
Ok(updated) == [tag |-> "Ok", name |-> None, error |-> "", last_action |-> "",
                updated |-> updated]

\* on_delete up to the join of the two StatefulSet deletes
on_delete(d) ==
    /\ Begin("delete", d)
    /\ IF read_namespace(d) = None
       THEN /\ ret' = Err(MissingProperty("namespace", d.kind))
            /\ pc' = "done"
            /\ br' = AllOff
       ELSE IF read_name(d) = None
       THEN /\ ret' = Err(MissingProperty("name", d.kind))
            /\ pc' = "done"
            /\ br' = AllOff
       ELSE /\ ret' = NoRet
            /\ pc' = "sts"
            /\ br' = [b \in Branches |->
                        IF b \in Range(StsDeletes) THEN "delete" ELSE "off"]

StsKey(b, cr_name) ==
    IF b = "delete_nifi_set" THEN <<"StatefulSet", cr_name>>
    ELSE <<"StatefulSet", zk_set_name(cr_name)>>

\* sts.delete(name, params).await
sts_delete(b) ==
    /\ pc = "sts"
    /\ br[b] = "delete"
    /\ LET key == StsKey(b, ev.d.name) IN
       \E o \in DeleteOutcomes(key) :
          /\ deletes' = [deletes EXCEPT ![key] = @ + 1]
          /\ cluster' = IF o = "deleted"
                        THEN [cluster EXCEPT ![key] = Absent] ELSE cluster
          /\ br' = [br EXCEPT ![b] = o]
          /\ faults' = faults + Fault(o)
    /\ UNCHANGED <<tpl, crs, ev, pc, current, todo, listed, gets, creates, lists,
                   ret, prev, nOps>>

\* mutant: delete_resources is started without awaiting the StatefulSet deletes
on_delete_join_sts_no_await ==
    /\ pc = "sts"
    /\ IF FirstErr(StsDeletes) # None
       THEN /\ ret' = Err(FirstErr(StsDeletes))
            /\ pc' = "done"
            /\ br' = br
       ELSE /\ ret' = ret
            /\ pc' = "labelled"
            /\ br' = [b \in Branches |->
                        IF b \in Range(LabelDeletes) THEN "list" ELSE br[b]]
    /\ UNCHANGED <<cluster, tpl, crs, ev, current, todo, listed,
                   gets, creates, deletes, lists, prev, nOps, faults>>

\* on_delete: join of the StatefulSet deletes, `?`, start of delete_resources
on_delete_join_sts ==
    /\ pc = "sts"
    /\ Finished(StsDeletes)
    /\ IF FirstErr(StsDeletes) # None
       THEN /\ ret' = Err(FirstErr(StsDeletes))
            /\ pc' = "done"
            /\ br' = br
       ELSE /\ ret' = ret
            /\ pc' = "labelled"
            /\ br' = [b \in Branches |->
                        IF b \in Range(LabelDeletes) THEN "list" ELSE br[b]]
    /\ UNCHANGED <<cluster, tpl, crs, ev, current, todo, listed,
                   gets, creates, deletes, lists, prev, nOps, faults>>

\* api.list(&lp): the names of the resources of a kind that carry the labels
Matching(kind, lp) ==
    SelectSeq(NameOrder,
              LAMBDA n : /\ <<kind, n>> \in Keys
                         /\ cluster[<<kind, n>>] # Absent
                         /\ cluster[<<kind, n>>].labels = lp)

\* find_names: api.list(&lp).await?
find_names(kind) ==
    /\ pc = "labelled"
    /\ br[kind] = "list"
    /\ lists' = [lists EXCEPT ![kind] = @ + 1]
    /\ \E o \in {"listed"} \cup
                (IF faults < MaxFaults THEN {"UpstreamApiError"} ELSE {}) :
          /\ faults' = faults + Fault(o)
          /\ IF o = "listed"
             THEN /\ todo' = [todo EXCEPT ![kind] = Matching(kind, CascadeLabels)]
                  /\ listed' = [listed EXCEPT ![kind] =
                                  [ok |-> TRUE,
                                   names |-> Matching(kind, CascadeLabels)]]
                  /\ br' = [br EXCEPT ![kind] =
                              IF Matching(kind, CascadeLabels) = <<>>
                              THEN "ok" ELSE "deleting"]
             ELSE /\ UNCHANGED <<todo, listed>>
                  /\ br' = [br EXCEPT ![kind] = o]
    /\ UNCHANGED <<cluster, tpl, crs, ev, pc, current, gets, creates, deletes,
                   ret, prev, nOps>>

\* mutant: the deletes of a kind stop at the first one that fails
delete_resources_stop_at_failure(kind) ==
    /\ pc = "labelled"
    /\ todo[kind] # <<>>
    /\ LET key == <<kind, Head(todo[kind])>>
           rest == Tail(todo[kind]) IN
       \E o \in DeleteOutcomes(key) :
          /\ deletes' = [deletes EXCEPT ![key] = @ + 1]
          /\ cluster' = IF o = "deleted"
                        THEN [cluster EXCEPT ![key] = Absent] ELSE cluster
          /\ todo' = [todo EXCEPT ![kind] =
                        IF o = "deleted" THEN rest ELSE <<>>]
          /\ br' = [br EXCEPT ![kind] =
                      IF br[kind] # "deleting" THEN br[kind]
                      ELSE IF o # "deleted" THEN o
                      ELSE IF rest = <<>> THEN "ok" ELSE "deleting"]
          /\ faults' = faults + Fault(o)
    /\ UNCHANGED <<tpl, crs, ev, pc, current, listed, gets, creates, lists,
                   ret, prev, nOps>>

\* delete_resources: one api.delete of the join_all, and its place in the
\* fold.  The deletes of one join_all target distinct names and the fold reads
\* their results in list order; they are completed here in that order.
delete_resources(kind) ==
    /\ pc = "labelled"
    /\ todo[kind] # <<>>
    /\ LET key == <<kind, Head(todo[kind])>>
           rest == Tail(todo[kind]) IN
       \E o \in DeleteOutcomes(key) :
          /\ deletes' = [deletes EXCEPT ![key] = @ + 1]
          /\ cluster' = IF o = "deleted"
                        THEN [cluster EXCEPT ![key] = Absent] ELSE cluster
          /\ todo' = [todo EXCEPT ![kind] = rest]
          /\ br' = [br EXCEPT ![kind] =
                      IF br[kind] # "deleting" THEN br[kind]
                      ELSE IF o # "deleted" THEN o
                      ELSE IF rest = <<>> THEN "ok" ELSE "deleting"]
          /\ faults' = faults + Fault(o)
    /\ UNCHANGED <<tpl, crs, ev, pc, current, listed, gets, creates, lists,
                   ret, prev, nOps>>

LabelDone ==
    \A i \in 1..Len(LabelDeletes) :
       /\ br[LabelDeletes[i]] \notin {"list", "deleting"}
       /\ todo[LabelDeletes[i]] = <<>>

\* on_delete: join3 of the three delete_resources
on_delete_join_labelled ==
    /\ pc = "labelled"
    /\ LabelDone
    /\ ret' = IF FirstErr(LabelDeletes) # None
              THEN Err(FirstErr(LabelDeletes)) ELSE Ok(FALSE)
    /\ pc' = "done"
    /\ UNCHANGED <<cluster, tpl, crs, ev, br, current, todo, listed,
                   gets, creates, deletes, lists, prev, nOps, faults>>

\* ------------------------------------- ConfigMapController (configmap.rs)
\* the deployments handle_configmaps is called with: name and namespace are
\* passed resolved, spec.ldap is read
SyncDeployments ==
    [name : crs, namespace : {"default"}, kind : {CrKind},
     spec : [ldap : Ldaps, replicas : {1}]]

\* handle_configmaps up to the join of the two get_or_create futures
handle_configmaps(d) ==
    /\ Begin("sync", d)
    /\ ret' = NoRet
    /\ pc' = "configmaps"
    /\ br' = [b \in Branches |-> IF b \in Range(Tier1) THEN "get" ELSE "off"]

\* the closures handle_configmaps passes to get_or_create
handle_configmaps_yaml(b, name, d) == Render(b, name, d.spec)

\* get_or_create: the get; Left(Some(resource)) when it is found
get_or_create_get(b) ==
    /\ pc = "configmaps"
    /\ br[b] = "get"
    /\ LET key == BranchKey(b, ev.d.name) IN
       \E o \in GetOutcomes(key) :
          /\ gets' = [gets EXCEPT ![key] = @ + 1]
          /\ br' = [br EXCEPT ![b] = IF o = "found" THEN "found" ELSE "create"]
          /\ current' = IF o = "found" /\ b = "nifi_configmap"
                        THEN cluster[key].data ELSE current
          /\ faults' = faults + Fault(o)
    /\ UNCHANGED <<cluster, tpl, crs, ev, pc, todo, listed,
                   creates, deletes, lists, ret, prev, nOps>>

\* get_or_create: render, parse and create when the get failed; Right(..)
get_or_create_absent(b) ==
    /\ pc = "configmaps"
    /\ br[b] = "create"
    /\ \E y \in RenderOutcomes(b) :
          CASE y = "none" ->
                 /\ br' = [br EXCEPT ![b] = "none"]
                 /\ UNCHANGED <<cluster, creates, faults>>
            [] y = "some" ->
                 create_resource(b, handle_configmaps_yaml(b, ev.d.name, ev.d))
            [] OTHER ->
                 /\ br' = [br EXCEPT ![b] = y]
                 /\ faults' = faults + 1
                 /\ UNCHANGED <<cluster, creates>>
    /\ UNCHANGED <<tpl, crs, ev, pc, current, todo, listed, gets, deletes, lists,
                   ret, prev, nOps>>

\* handle_update: the payload the live ConfigMap is compared with
expected_data(d, cm_name) == ManifestData("nifi_configmap", cm_name, d.spec)

\* mutant: the comparison is inverted, equal payloads are taken for drift
handle_update_inverted(d, cm_name) ==
    \E y \in RenderOutcomes("nifi_configmap") :
       /\ faults' = faults + Fault(y)
       /\ CASE y = "none" -> ret' = Ok(FALSE) /\ pc' = "done"
            [] y = "some" ->
                 IF current = expected_data(d, cm_name)
                 THEN ret' = ret /\ pc' = "recreate_delete"
                 ELSE ret' = Ok(FALSE) /\ pc' = "done"
            [] OTHER -> ret' = Err(y) /\ pc' = "done"

\* mutant: the ConfigMap is recreated whether or not the payloads differ
handle_update_always(d, cm_name) ==
    \E y \in RenderOutcomes("nifi_configmap") :
       /\ faults' = faults + Fault(y)
       /\ CASE y = "none" -> ret' = Ok(FALSE) /\ pc' = "done"
            [] y = "some" -> ret' = ret /\ pc' = "recreate_delete"
            [] OTHER -> ret' = Err(y) /\ pc' = "done"

\* handle_update, up to the call of recreate_cm
handle_update(d, cm_name) ==
    \E y \in RenderOutcomes("nifi_configmap") :
       /\ faults' = faults + Fault(y)
       /\ CASE y = "none" -> ret' = Ok(FALSE) /\ pc' = "done"
            [] y = "some" ->
                 IF current # expected_data(d, cm_name)
                 THEN ret' = ret /\ pc' = "recreate_delete"
                 ELSE ret' = Ok(FALSE) /\ pc' = "done"
            [] OTHER -> ret' = Err(y) /\ pc' = "done"

\* handle_configmaps: the join, `?` and the match on the nifi result
handle_configmaps_join ==
    /\ pc = "configmaps"
    /\ Finished(Tier1)
    /\ IF FirstErr(Tier1) # None
       THEN ret' = Err(FirstErr(Tier1)) /\ pc' = "done" /\ faults' = faults
       ELSE IF br["nifi_configmap"] = "found"
       THEN handle_update(ev.d, nifi_cm_name(ev.d.name))
       ELSE ret' = Ok(FALSE) /\ pc' = "done" /\ faults' = faults
    /\ UNCHANGED <<cluster, tpl, crs, ev, br, current, todo, listed,
                   gets, creates, deletes, lists, prev, nOps>>

\* recreate_cm: api.delete(&nifi_cm_name, params).await?
recreate_cm_delete ==
    /\ pc = "recreate_delete"
    /\ LET key == <<"ConfigMap", nifi_cm_name(ev.d.name)>> IN
       \E o \in DeleteOutcomes(key) :
          /\ deletes' = [deletes EXCEPT ![key] = @ + 1]
          /\ cluster' = IF o = "deleted"
                        THEN [cluster EXCEPT ![key] = Absent] ELSE cluster
          /\ faults' = faults + Fault(o)
          /\ IF o = "deleted"
             THEN ret' = ret /\ pc' = "recreate_create"
             ELSE ret' = Err(o) /\ pc' = "done"
    /\ UNCHANGED <<tpl, crs, ev, br, current, todo, listed, gets, creates, lists,
                   prev, nOps>>

\* recreate_cm: create_from_yaml(&name, &ns, &client, ..).await.map(|_| ())
recreate_cm_create ==
    /\ pc = "recreate_create"
    /\ \E y \in RenderOutcomes("nifi_configmap") :
          CASE y = "none" ->
                 /\ ret' = Ok(TRUE)
                 /\ UNCHANGED <<cluster, creates, faults>>
            [] y = "some" ->
                 LET m == Render("nifi_configmap", ev.d.name, ev.d.spec) IN
                 \E o \in CreateOutcomes(m.key) :
                    /\ creates' = [creates EXCEPT ![m.key] = @ + 1]
                    /\ cluster' = IF o = "created"
                                  THEN [cluster EXCEPT ![m.key] = m.res]
                                  ELSE cluster
                    /\ faults' = faults + Fault(o)
                    /\ ret' = IF o = "created" THEN Ok(TRUE) ELSE Err(o)
            [] OTHER ->
                 /\ ret' = Err(y)
                 /\ faults' = faults + 1
                 /\ UNCHANGED <<cluster, creates>>
    /\ pc' = "done"
    /\ UNCHANGED <<tpl, crs, ev, br, current, todo, listed, gets, deletes, lists,
                   prev, nOps>>

Next ==
    \/ \E d \in Deployments : on_add(d)
    \/ \E d \in Deployments : on_modify(d)
    \/ \E b \in Templates : create_from_yaml_get(b)
    \/ \E b \in Templates : create_from_yaml_absent(b)
    \/ Join1
    \/ Join2
    \/ Join3
    \/ \E d \in Deployments : on_delete(d)
    \/ \E b \in Range(StsDeletes) : sts_delete(b)
    \/ on_delete_join_sts
    \/ \E k \in Range(LabelDeletes) : find_names(k)
    \/ \E k \in Range(LabelDeletes) : delete_resources(k)
    \/ on_delete_join_labelled
    \/ \E d \in SyncDeployments : handle_configmaps(d)
    \/ \E b \in Range(Tier1) : get_or_create_get(b)
    \/ \E b \in Range(Tier1) : get_or_create_absent(b)
    \/ handle_configmaps_join
    \/ recreate_cm_delete
    \/ recreate_cm_create

Spec == Init /\ [][Next]_vars

\* ------------------------------------------- two deployments, one namespace
\* the (kind, name) pairs the naming convention derives for a deployment
Owned(name) == {BranchKey(b, name) : b \in Templates}

\* the cluster after on_add has reconciled one deployment without a failure
Deployed(name) ==
    [k \in Keys |->
        IF k \in Owned(name)
        THEN LET b == CHOOSE t \in Templates : BranchKey(t, name) = k IN
             handle_event_yaml(b, name, [spec |-> [ldap |-> None,
                                                    replicas |-> 1]]).res
        ELSE Absent]

\* the dispatcher serves two deployments of the namespace: "flow", already
\* reconciled or not, next to "nifi", or "nifi" next to "nifi-zookeeper"
PairStarts ==
    {<<{"flow", "nifi"}, Deployed("flow")>>,
     <<{"flow", "nifi"}, [k \in Keys |-> Absent]>>,
     <<{"nifi", "nifi-zookeeper"}, [k \in Keys |-> Absent]>>}

InitPair ==
    /\ tpl = [disabled |-> {}, nameInData |-> FALSE]
    /\ \E i \in PairStarts : crs = i[1] /\ cluster = i[2]
    /\ ev = NoEvent
    /\ prev = [ev |-> NoEvent, br |-> AllOff, creates |-> ZeroCalls,
               faults |-> 0]
    /\ pc = "idle"
    /\ br = AllOff
    /\ current = <<>>
    /\ todo = [k \in Kinds |-> <<>>]
    /\ listed = NotListed
    /\ gets = ZeroCalls /\ creates = ZeroCalls /\ deletes = ZeroCalls
    /\ lists = ZeroLists
    /\ ret = NoRet
    /\ nOps = 0
    /\ faults = 0

\* the events of the two deployments carry name and namespace
PairDeployments ==
    [name : crs, namespace : {"default"}, kind : {CrKind},
     spec : [ldap : {None}, replicas : {1}]]

NextPair ==
    \/ \E d \in PairDeployments : on_add(d)
    \/ \E d \in PairDeployments : on_modify(d)
    \/ \E b \in Templates : create_from_yaml_get(b)
    \/ \E b \in Templates : create_from_yaml_absent(b)
    \/ Join1
    \/ Join2
    \/ Join3
    \/ \E d \in PairDeployments : on_delete(d)
    \/ \E b \in Range(StsDeletes) : sts_delete(b)
    \/ on_delete_join_sts
    \/ \E k \in Range(LabelDeletes) : find_names(k)
    \/ \E k \in Range(LabelDeletes) : delete_resources(k)
    \/ on_delete_join_labelled

SpecPair == InitPair /\ [][NextPair]_vars

\* ----------------------------- repeated reconciliation of one deployment
\* the controller starts against an empty namespace, with every template
\* enabled or with the ingress disabled
InitLive ==
    /\ tpl \in [disabled : {{}, {"ingress"}}, nameInData : {FALSE}]
    /\ cluster = [k \in Keys |-> Absent]
    /\ crs = {"nifi"}
    /\ ev = NoEvent
    /\ prev = [ev |-> NoEvent, br |-> AllOff, creates |-> ZeroCalls,
               faults |-> 0]
    /\ pc = "idle"
    /\ br = AllOff
    /\ current = <<>>
    /\ todo = [k \in Kinds |-> <<>>]
    /\ listed = NotListed
    /\ gets = ZeroCalls /\ creates = ZeroCalls /\ deletes = ZeroCalls
    /\ lists = ZeroLists
    /\ ret = NoRet
    /\ nOps = 0
    /\ faults = 0

\* the add / modify events of the deployment, its spec unchanged
LiveDeployments ==
    [name : crs, namespace : {"default"}, kind : {CrKind},
     spec : [ldap : {None}, replicas : {1}]]

NextLive ==
    \/ \E d \in LiveDeployments : on_add(d)
    \/ \E d \in LiveDeployments : on_modify(d)
    \/ \E b \in Templates : create_from_yaml_get(b)
    \/ \E b \in Templates : create_from_yaml_absent(b)
    \/ Join1
    \/ Join2
    \/ Join3

\* the events are delivered one after the other and the runtime polls every
\* future of a running handler until it resolves
SpecLive == InitLive /\ [][NextLive]_vars /\ WF_vars(NextLive)
\* ================================================================ properties
AddModify == {"add", "modify"}
Done == pc = "done"
OkResults == {"found", "created", "none"}
KeysOf(kind) == {k \in Keys : k[1] = kind}
NoCalls ==
    /\ \A k \in Keys : gets[k] = 0 /\ creates[k] = 0 /\ deletes[k] = 0
    /\ \A k \in Kinds : lists[k] = 0
\* no failure was injected since the running handler began
NoFaultThisOp == faults = prev.faults
\* the text `sub` occurs in the text `s`
Mentions(s, sub) ==
    \E i \in 1..(Len(s) - Len(sub) + 1) : SubSeq(s, i, i + Len(sub) - 1) = sub

MissingName == ev.action \in AddModify /\ ev.d.name = None

HandleEventOk ==
    /\ ev.d.namespace # None
    /\ \A b \in Templates : br[b] \in OkResults

\* C2: for a deployment with a name, on_add / on_modify return {name, status}
\* and never an error; status.last_action is "add" for on_add and "modify"
\* for on_modify; status.error is empty exactly when handle_event succeeded.
C2_StatusAlwaysReturned ==
    (Done /\ ev.action \in AddModify /\ ev.d.name # None) =>
        /\ ret.tag = "Ok"
        /\ ret.name = ev.d.name
        /\ ret.last_action = ev.action
        /\ (ret.error = "" <=> HandleEventOk)

C2_Witness ==
    /\ Done /\ ev.action = "add" /\ ev.d.name # None
    /\ ret.tag = "Ok" /\ ret.error = "ManifestParseError"
    /\ br["zk_service"] = "ManifestParseError" /\ br["nifi_service"] = "created"

MissingNamespace ==
    ev.action \in AddModify /\ ev.d.name # None /\ ev.d.namespace = None

\* C3: for a deployment with a name and without a namespace, handle_event
\* fails with MissingProperty before any tier starts: no create call (indeed no
\* call at all) is issued, and the failure is reported in status.error.
C3_MissingNamespaceNoCalls ==
    MissingNamespace =>
        /\ Done
        /\ NoCalls /\ br = AllOff
        /\ ret.tag = "Ok"
        /\ ret.error = MissingProperty("namespace", ev.d.kind)
        /\ Mentions(ret.error, "\"namespace\"")

C3_Witness ==
    MissingNamespace /\ Done /\ ev.action = "add" /\ ret.error # ""
        /\ prev.creates # ZeroCalls

Called(kind) == \E k \in KeysOf(kind) : gets[k] + creates[k] > 0

\* C4: in handle_event no get or create for a StatefulSet is issued unless both
\* ConfigMap ensures of tier 1 returned Ok, and no get or create for a Service
\* or Ingress is issued unless both StatefulSet ensures of tier 2 returned Ok;
\* in particular, when the zk ConfigMap ensure fails no StatefulSet is created.
C4_TierOrdering ==
    ev.action \in AddModify =>
        /\ Called("StatefulSet") =>
              \A b \in Range(Tier1) : br[b] \in OkResults
        /\ (Called("Service") \/ Called("Ingress")) =>
              \A b \in Range(Tier1) \cup Range(Tier2) : br[b] \in OkResults
        /\ IsErr(br["zk_configmap"]) =>
              \A k \in KeysOf("StatefulSet") : creates[k] = 0

C4_Witness ==
    /\ ev.action = "add" /\ Done
    /\ br["zk_configmap"] = "UpstreamApiError"
    /\ br["nifi_configmap"] = "created"
    /\ \A k \in KeysOf("StatefulSet") : gets[k] = 0 /\ creates[k] = 0
    /\ ret.error = "UpstreamApiError"
ValidDelete ==
    ev.action = "delete" /\ ev.d.name # None /\ ev.d.namespace # None
Labelled(k) ==
    k[1] \in Range(LabelDeletes) /\ cluster[k] # Absent
                                 /\ cluster[k].labels = CascadeLabels
\* the list call of delete_resources failed: an error and no delete issued
ListFailed(kind) ==
    IsErr(br[kind]) /\ \A k \in KeysOf(kind) : deletes[k] = 0
DeleteFailed ==
    \/ \E b \in Range(StsDeletes) : IsErr(br[b])
    \/ \E kind \in Range(LabelDeletes) : IsErr(br[kind]) /\ ~ListFailed(kind)

\* C5 as stated: on_delete issues one delete for each of the two StatefulSets
\* and one for every Service, ConfigMap and Ingress that matches the label
\* query, whichever of these deletes fail, and it fails exactly when at least
\* one delete fails (the list calls succeeding).
C5_CascadeAllAttempted ==
    (Done /\ ValidDelete /\ \A kind \in Range(LabelDeletes) : ~ListFailed(kind)) =>
        /\ \A b \in Range(StsDeletes) : deletes[StsKey(b, ev.d.name)] = 1
        /\ \A k \in Keys : Labelled(k) => deletes[k] = 1
        /\ (ret.tag = "Err" <=> DeleteFailed)

NifiCmKey == <<"ConfigMap", nifi_cm_name(ev.d.name)>>
NifiCmEnabled == "nifi_configmap" \notin tpl.disabled
\* handle_configmaps found the nifi ConfigMap and its payload differs from / is
\* equal to the payload handle_update renders
Drift == current # expected_data(ev.d, nifi_cm_name(ev.d.name))
SyncFound ==
    /\ ev.action = "sync"
    /\ br["nifi_configmap"] = "found"
    /\ br["zk_configmap"] \in OkResults

\* C6: when the nifi ConfigMap exists, its payload differs from the freshly
\* rendered one and no call fails, handle_configmaps issues exactly one delete
\* and then exactly one create for it, the create never before the delete has
\* completed, and returns true.
C6_DriftRecreates ==
    (SyncFound /\ NifiCmEnabled /\ Drift /\ NoFaultThisOp) =>
        /\ creates[NifiCmKey] > 0 => deletes[NifiCmKey] = 1
        /\ pc = "recreate_create" =>
              deletes[NifiCmKey] = 1 /\ creates[NifiCmKey] = 0
                                     /\ cluster[NifiCmKey] = Absent
        /\ Done =>
              /\ deletes[NifiCmKey] = 1 /\ creates[NifiCmKey] = 1
              /\ ret = Ok(TRUE)
              /\ cluster[NifiCmKey] =
                    Render("nifi_configmap", ev.d.name, ev.d.spec).res

C6_Witness ==
    /\ SyncFound /\ NifiCmEnabled /\ Drift /\ NoFaultThisOp /\ Done
    /\ ret = Ok(TRUE) /\ deletes[NifiCmKey] = 1 /\ creates[NifiCmKey] = 1

\* C7: when the existing nifi ConfigMap carries exactly the freshly rendered
\* payload, or when the template renders no manifest, handle_configmaps issues
\* no delete and no create for the nifi ConfigMap, and (no call failing)
\* returns false.
C7_NoDriftNoAction ==
    (ev.action = "sync" /\ Done /\
        ((SyncFound /\ NifiCmEnabled /\ ~Drift) \/ ~NifiCmEnabled)) =>
        /\ deletes[NifiCmKey] = 0 /\ creates[NifiCmKey] = 0
        /\ NoFaultThisOp => ret = Ok(FALSE)

C7_Witness ==
    /\ SyncFound /\ NifiCmEnabled /\ ~Drift /\ Done /\ NoFaultThisOp
    /\ ret = Ok(FALSE) /\ gets[NifiCmKey] = 1

\* the no-manifest arm of handle_update: the ConfigMap exists and the template
\* renders nothing
C7_WitnessDisabled ==
    SyncFound /\ ~NifiCmEnabled /\ Done /\ ret = Ok(FALSE)

\* two add / modify events in a row for the same deployment, both reaching
\* handle_event's tiers
Twice ==
    /\ ev.action \in AddModify /\ prev.ev.action \in AddModify
    /\ ev.d.name # None /\ prev.ev.d.name = ev.d.name
    /\ ev.d.namespace # None /\ prev.ev.d.namespace = ev.d.namespace

\* C8: when create_from_yaml is invoked twice in a row for the same kind, name
\* and namespace, the first invocation creating the resource and the second
\* one's get succeeding, the two issue exactly one create: the second finds the
\* resource by its get and returns it without a create.
C8_EnsureTwiceOneCreate ==
    \A b \in Templates :
        (Twice /\ prev.br[b] = "created" /\ br[b] \notin Running
               /\ NoFaultThisOp) =>
            /\ br[b] = "found"
            /\ gets[BranchKey(b, ev.d.name)] = 1
            /\ creates[BranchKey(b, ev.d.name)] = 0
            /\ prev.creates[BranchKey(b, ev.d.name)]
                 + creates[BranchKey(b, ev.d.name)] = 1

C8_Witness ==
    /\ Twice /\ NoFaultThisOp /\ Done /\ ev.action = "modify"
    /\ \A b \in Templates :
          /\ prev.br[b] = "created" /\ br[b] = "found"
          /\ prev.creates[BranchKey(b, ev.d.name)] = 1
          /\ creates[BranchKey(b, ev.d.name)] = 0

\* C9: when the template of a tier-3 resource that is absent from the cluster
\* renders no manifest and no call fails, on_add succeeds with an empty
\* status.error and issues no create for that resource.
C9_DisabledFeature ==
    \A t \in Range(Tier3) :
        (ev.action = "add" /\ Done /\ ev.d.name # None /\ ev.d.namespace # None
            /\ t \in tpl.disabled /\ NoFaultThisOp) =>
            /\ ret.tag = "Ok" /\ ret.error = ""
            /\ br[t] = "none"
            /\ gets[BranchKey(t, ev.d.name)] = 1
            /\ creates[BranchKey(t, ev.d.name)] = 0
            /\ cluster[BranchKey(t, ev.d.name)] = Absent

C9_Witness ==
    /\ ev.action = "add" /\ Done /\ "ingress" \in tpl.disabled
    /\ ret.tag = "Ok" /\ ret.error = "" /\ br["ingress"] = "none"
    /\ \A t \in Range(Tier3) \ {"ingress"} : br[t] = "created"

\* C10 as stated: a create that fails because the resource already exists is
\* treated as success: neither the ensure nor its tier nor the reconciliation
\* fails on that account, and status.error stays empty.
C10_AlreadyExistsIsSuccess ==
    ev.action \in AddModify =>
        /\ \A b \in Templates : br[b] # "AlreadyExists"
        /\ ret.error # "AlreadyExists"
Started(tier) == \E b \in Range(tier) : br[b] # "off"
\* the join of a tier of handle_event has returned
Joined(tier) ==
    /\ ev.action \in AddModify /\ Started(tier)
    /\ pc \in (CASE tier = Tier1 -> {"tier2", "tier3", "done"}
                 [] tier = Tier2 -> {"tier3", "done"}
                 [] OTHER -> {"done"})
\* the tier's join returned an error, which ended handle_event
TierFailed(tier) ==
    /\ Done /\ ret.error # ""
    /\ tier = Tier1 => ~Started(Tier2)
    /\ tier = Tier2 => ~Started(Tier3)

\* C11: once a tier of handle_event has started, a failing branch does not
\* cancel its siblings: when the join returns, every branch of the tier has
\* issued its get and run to its end (a create issued where it created, none
\* where it found the resource or rendered no manifest), and the tier fails
\* exactly when at least one of its branches failed.
C11_TierRunsToCompletion ==
    \A tier \in {Tier1, Tier2, Tier3} :
        Joined(tier) =>
            /\ \A b \in Range(tier) :
                  /\ br[b] \notin Running
                  /\ gets[BranchKey(b, ev.d.name)] = 1
                  /\ br[b] = "created" =>
                        /\ creates[BranchKey(b, ev.d.name)] = 1
                        /\ cluster[BranchKey(b, ev.d.name)] # Absent
                  /\ br[b] \in {"found", "none"} =>
                        creates[BranchKey(b, ev.d.name)] = 0
            /\ (\E b \in Range(tier) : IsErr(br[b])) <=> TierFailed(tier)

C11_Witness ==
    /\ Joined(Tier3)
    /\ br["nifi_service"] = "UpstreamApiError"
    /\ creates[BranchKey("nifi_service", ev.d.name)] = 1
    /\ \A b \in Range(Tier3) \ {"nifi_service"} : br[b] = "created"
    /\ ret.error = "UpstreamApiError"

\* C12: add / modify reconciliation never rolls back: it issues no delete and
\* no list call, and every resource one of its branches created is still in the
\* cluster, as rendered, when a sibling branch or a later tier has failed.
C12_NoRollback ==
    ev.action \in AddModify =>
        /\ \A k \in Keys : deletes[k] = 0
        /\ \A k \in Kinds : lists[k] = 0
        /\ \A b \in Templates :
              br[b] = "created" =>
                 cluster[BranchKey(b, ev.d.name)] =
                    handle_event_yaml(b, ev.d.name, ev.d).res

C12_Witness ==
    /\ ev.action = "add" /\ Done /\ ret.error # ""
    /\ IsErr(br["nifi_statefulset"]) /\ br["zk_statefulset"] = "created"
    /\ \A b \in Range(Tier1) \cup {"zk_statefulset"} :
          br[b] = "created" /\ cluster[BranchKey(b, ev.d.name)] # Absent
\* delete_resources of a kind has returned
KindDone(kind) ==
    /\ ev.action = "delete"
    /\ br[kind] \notin {"off", "list", "deleting"}
    /\ todo[kind] = <<>>

\* C13: delete_resources lists a kind once; after a successful list it issues
\* exactly one delete for every listed name, whichever of them fail, and its
\* result is an error exactly when a delete failed (the resource is still
\* there); after a failed list it issues no delete for the kind and its result,
\* and the result of on_delete, is an error.
C13_DeleteAllRunsToCompletion ==
    \A kind \in Range(LabelDeletes) :
        KindDone(kind) =>
            /\ lists[kind] = 1
            /\ IF listed[kind].ok
               THEN /\ \A k \in KeysOf(kind) :
                          deletes[k] =
                             IF k[2] \in Range(listed[kind].names) THEN 1 ELSE 0
                    /\ IsErr(br[kind]) <=>
                          \E n \in Range(listed[kind].names) :
                             cluster[<<kind, n>>] # Absent
               ELSE /\ \A k \in KeysOf(kind) : deletes[k] = 0
                    /\ IsErr(br[kind])
            /\ (Done /\ IsErr(br[kind])) => ret.tag = "Err"

C13_Witness ==
    /\ Done /\ KindDone("Service")
    /\ Len(listed["Service"].names) = 4
    /\ cluster[<<"Service", "nifi">>] # Absent
    /\ deletes[<<"Service", "nifi">>] = 1
    /\ \A n \in Range(listed["Service"].names) \ {"nifi"} :
          deletes[<<"Service", n>>] = 1 /\ cluster[<<"Service", n>>] = Absent
    /\ ret.tag = "Err"

C13_WitnessListFailed ==
    /\ Done /\ KindDone("ConfigMap") /\ ~listed["ConfigMap"].ok
    /\ Labelled(<<"ConfigMap", "nifi-config">>)
    /\ ret.tag = "Err"
\* a list or a delete of the label-selected tier has been issued
LabelTierCalled ==
    \E kind \in Range(LabelDeletes) :
        lists[kind] > 0 \/ \E k \in KeysOf(kind) : deletes[k] > 0

\* C14: in on_delete no list and no delete for a label-selected Service,
\* ConfigMap or Ingress is issued before both StatefulSet deletes have been
\* issued and have completed.
C14_StatefulSetsBeforeLabelled ==
    (ev.action = "delete" /\ LabelTierCalled) =>
        \A b \in Range(StsDeletes) :
            /\ br[b] \notin Running
            /\ deletes[StsKey(b, ev.d.name)] = 1

C14_Witness ==
    /\ ev.action = "delete" /\ pc = "labelled"
    /\ lists["Service"] = 1 /\ lists["ConfigMap"] = 0
    /\ \A b \in Range(StsDeletes) : br[b] = "deleted"
\* the resources create_from_yaml only ever creates: every managed resource
\* but the nifi ConfigMap
CreateOnceKeys ==
    {BranchKey(b, n) : b \in Templates \ {"nifi_configmap"}, n \in CrNames}

\* C15 as stated: while on_add / on_modify runs, a create-once resource that
\* exists gets no create call and no delete call, and its content stays as it
\* is.
C15_NotSelfHealing ==
    [][\A k \in CreateOnceKeys :
          (ev.action \in AddModify /\ pc \notin {"idle", "done"}
              /\ cluster[k] # Absent) =>
             /\ creates'[k] = creates[k]
             /\ deletes'[k] = deletes[k]
             /\ cluster'[k] = cluster[k]]_vars

\* C16 as stated: create_from_yaml issues a create call only for a resource
\* that is absent from the cluster, whatever its get returned.
C16_CreateOnlyWhenAbsent ==
    [][\A b \in Templates :
          (ev.action \in AddModify /\ br[b] = "create"
              /\ creates'[BranchKey(b, ev.d.name)] >
                    creates[BranchKey(b, ev.d.name)]) =>
             cluster[BranchKey(b, ev.d.name)] = Absent]_vars
\* handle_configmaps runs for the second time in a row for the same deployment
\* and spec, the first run having issued the create of the nifi ConfigMap, and
\* finds the ConfigMap with the payload that creation renders
SyncAfterCreate ==
    /\ SyncFound /\ NifiCmEnabled
    /\ prev.ev = ev
    /\ prev.creates[NifiCmKey] = 1
    /\ current = Render("nifi_configmap", ev.d.name, ev.d.spec).res.data

\* C17 as stated: after handle_configmaps has created or recreated the nifi
\* ConfigMap, a following handle_configmaps for the same deployment and spec,
\* the ConfigMap untouched in between and no call failing, detects no drift:
\* it returns false and issues no delete and no create.
C17_DriftCheckStable ==
    (Done /\ SyncAfterCreate /\ NoFaultThisOp) =>
        /\ ret = Ok(FALSE)
        /\ deletes[NifiCmKey] = 0 /\ creates[NifiCmKey] = 0
\* C18 as stated: on_delete of a deployment issues delete calls only for the
\* resources the naming convention derives for that deployment: no Service,
\* ConfigMap or Ingress of another deployment of the namespace gets a delete
\* call.
C18_CascadeIsolated ==
    ev.action = "delete" =>
        \A k \in Keys : deletes[k] > 0 => k \in Owned(ev.d.name)

\* on_add / on_modify of one deployment has returned right after on_add /
\* on_modify of another deployment of the namespace
TwoReconciled ==
    /\ Done
    /\ ev.action \in AddModify /\ prev.ev.action \in AddModify
    /\ prev.ev.d.name # ev.d.name

\* C19 as stated: the (kind, name) sets derived for two deployments with
\* distinct names are disjoint, a resource that create_from_yaml finds for a
\* deployment is that deployment's own, and no two branches of a tier target
\* the same (kind, name).
C19_UniqueOwnership ==
    TwoReconciled =>
        /\ Owned(prev.ev.d.name) \cap Owned(ev.d.name) = {}
        /\ \A b \in Templates :
              br[b] = "found" =>
                 cluster[BranchKey(b, ev.d.name)].owner = ev.d.name
        /\ \A tier \in {Tier1, Tier2, Tier3} :
              \A i, j \in 1..Len(tier) :
                 i # j => BranchKey(tier[i], ev.d.name) #
                             BranchKey(tier[j], ev.d.name)
\* every resource the templates render for the deployment exists and the
\* reconciliation that just returned reports no error
Converged ==
    /\ Done /\ ev.action \in AddModify
    /\ ret.tag = "Ok" /\ ret.error = ""
    /\ \A b \in Templates \ tpl.disabled :
          cluster[BranchKey(b, ev.d.name)] # Absent

C20_WitnessStable ==
    /\ Converged /\ Twice /\ NoFaultThisOp
    /\ \A b \in Templates : prev.br[b] = "created" /\ br[b] = "found"
    /\ \A k \in Keys : creates[k] = 0
====
